---- MODULE Spec2Model ----
(***************************************************************************)
(* Model of plugins/modules/postgresql_funcs.py: one invocation of main()  *)
(* reconciles one PostgreSQL function against a request, through a single  *)
(* session (autocommit off) on the catalog.                                *)
(*                                                                         *)
(* Python values: None is the string "None" (which is also what "%s" % None *)
(* renders); the `arguments` parameter, which is None, a list or (after    *)
(* main's conversion) a str, is a tagged record.  SQL text is a sequence   *)
(* of pieces, each blank of the text being the piece " ", so that two      *)
(* pieces with no " " between them are adjacent characters of the text.    *)
(*                                                                         *)
(* The server is the environment: it may reject any statement (privilege,  *)
(* dependency), which is the `ok` input of exec_sql, and it rejects a      *)
(* CREATE whose text does not have LANGUAGE as a token of its own; when it *)
(* accepts a statement, the effect is that of the command the pieces       *)
(* spell.  The catalog query returns a return type as pg_type.typname,     *)
(* which for "int4[]" is "_int4".                                          *)
(* Not modelled: check_input (trust_input is left at its default, true),   *)
(* schema-qualified names (every name is in schema public), session_role.  *)
(***************************************************************************)
EXTENDS Integers, Sequences, FiniteSets, TLC

VARIABLES
    db,                \* committed catalog: a set of pg_proc rows
    tx,                \* the catalog as the open session sees it
    conn,              \* "none" | "open" | "closed": db_connection
    pc,                \* position of main(): idle, validated, inspected, acted, done, failed
    params,            \* module.params plus module.check_mode
    arguments,         \* main's local `arguments`
    volatile,          \* main's local `volatile`
    exists,            \* func_obj.exists
    info,              \* func_obj.info
    executed_queries,  \* func_obj.executed_queries
    changed,           \* main's local `changed`: "True" | "False" | "None"
    kw,                \* the result handed to module.exit_json
    warnings,          \* module.warn calls, in order
    failure,           \* "" or the kind of the module.fail_json call that ended the run
    sent,              \* every text given to cursor.execute in this invocation
    runs,              \* invocations started so far
    db0                \* committed catalog when this invocation started

vars == <<db, tx, conn, pc, params, arguments, volatile, exists, info,
          executed_queries, changed, kw, warnings, failure, sent, runs, db0>>

----------------------------------------------------------------------------
(* Bounds *)

\* invocations of main() in one behaviour (the first, then re-runs of the same request)
MaxRuns == 2
\* present-only options set together in a request with state=absent or with rename
MaxConflicts == 1

----------------------------------------------------------------------------
(* Values *)

None == "None"

PyNone == [t |-> "none"]
PyList(items) == [t |-> "list", items |-> items]
PyStr(s) == [t |-> "str", s |-> s]

\* bool() of a str-or-None option
Truthy(x) == x # None /\ x # ""

\* bool() of the `arguments` value
ArgsTruthy(a) ==
    CASE a.t = "none" -> FALSE
      [] a.t = "list" -> Len(a.items) > 0
      [] a.t = "str"  -> a.s # ""

\* "%s" % a
ArgsFormat(a) ==
    CASE a.t = "none" -> "None"
      [] a.t = "list" -> IF a.items = <<>> THEN "[]" ELSE "[...]"
      [] a.t = "str"  -> a.s

FuncName == "f"
NewName == "g"
Names == {FuncName, NewName}

SessionUser == "postgres"
Roles == {"postgres", "alice"}
Languages == {"sql", "plpgsql"}
Types == {"int4", "text"}
\* a return type as a request may spell it whose text ends in punctuation,
\* and the pg_type.typname the catalog query returns for it
ArrayType == "int4[]"
ArrayTypName == "_int4"
TypeTexts == Types \cup {ArrayType}
\* pt.typname of a type spelled t
TypName(t) == IF t = ArrayType THEN ArrayTypName ELSE t
Sources == {"s1", "s2"}
ArgLists == {<<>>, <<"a integer", "b integer">>}

\* a pg_proc row joined with its language, type and owner
Row(owner, args, lang, rt, vol, strict, secdef, src) ==
    [name |-> FuncName, owner |-> owner, arguments |-> args, language |-> lang,
     return_type |-> rt, volatile |-> vol, is_strict |-> strict,
     is_secdef |-> secdef, source |-> src]

R0 == Row("postgres", "a integer, b integer", "sql", "int4", "v", FALSE, FALSE, "s1")

InitialCatalogs ==
    { {},
      {R0},
      {[R0 EXCEPT !.owner = "alice"]},
      {[R0 EXCEPT !.language = "plpgsql"]},
      {[R0 EXCEPT !.return_type = "text"]},
      {[R0 EXCEPT !.source = "s2"]},
      {[R0 EXCEPT !.arguments = ""]},
      {R0, [R0 EXCEPT !.arguments = "a integer"]} }

\* the present-only options, by name
PresentOnly == {"owner", "language", "return_type", "source", "volatile",
                "strict", "security_definer"}

IsSet(p, o) ==
    CASE o = "strict" -> p.strict
      [] o = "security_definer" -> p.security_definer
      [] OTHER -> Truthy(p[o])

AllRequests ==
    [state : {"present", "absent"},
     rename : {None, NewName},
     owner : {None, "alice"},
     language : {None, "sql"},
     return_type : {None, "int4", ArrayType},
     source : {None, "s1"},
     arguments : {PyNone} \cup {PyList(l) : l \in ArgLists},
     volatile : {None, "immutable", "stable", "volatile"},
     strict : BOOLEAN,
     security_definer : BOOLEAN,
     cascade : BOOLEAN,
     check_mode : BOOLEAN]

\* the options at the defaults of argument_spec: what params holds before
\* the first invocation has read any
DefaultRequest ==
    [state |-> "present", rename |-> None, owner |-> None, language |-> None,
     return_type |-> None, source |-> None, arguments |-> PyNone,
     volatile |-> None, strict |-> FALSE, security_definer |-> FALSE,
     cascade |-> FALSE, check_mode |-> FALSE]

\* every request with state=present and no rename; the other requests with at
\* most MaxConflicts present-only options set
Requests ==
    { p \in AllRequests :
        \/ p.state = "present" /\ p.rename = None
        \/ Cardinality({o \in PresentOnly : IsSet(p, o)}) <= MaxConflicts }

----------------------------------------------------------------------------
(* Desired-state conversion (main) *)

RECURSIVE Join(_, _)
\* sep.join(items)
Join(sep, items) ==
    IF items = <<>> THEN ""
    ELSE IF Len(items) = 1 THEN items[1]
    ELSE items[1] \o sep \o Join(sep, Tail(items))

\* if arguments: arguments = ", ".join(arguments)
ConvertArguments(a) ==
    IF ArgsTruthy(a) /\ a.t = "list" THEN PyStr(Join(", ", a.items)) ELSE a

\* the volatile option to the catalog's provolatile code
ConvertVolatile(v) ==
    IF Truthy(v)
    THEN IF v = "immutable" THEN "i" ELSE IF v = "stable" THEN "s" ELSE "v"
    ELSE "v"

----------------------------------------------------------------------------
(* Statement texts *)

pg_quote_identifier(name) == "\"" \o name \o "\""

SP == " "

\* Function.create_or_replace: the text it builds
CreateOrReplaceQuery(name, language, return_type, source, args, vol, is_strict, is_secdef) ==
    <<"CREATE OR REPLACE FUNCTION", SP, pg_quote_identifier(name)>>
    \o (IF ArgsTruthy(args) THEN <<"(", ArgsFormat(args), ")">> ELSE <<"(", ")">>)
    \o <<"RETURNS", SP, return_type>>
    \o <<"LANGUAGE", SP, language>>
    \o (IF vol = "i" THEN <<SP, "IMMUTABLE">>
        ELSE IF vol = "s" THEN <<SP, "STABLE">>
        ELSE IF vol = "v" THEN <<SP, "VOLATILE">>
        ELSE <<>>)
    \o (IF is_strict THEN <<SP, "STRICT">> ELSE <<>>)
    \o (IF is_secdef THEN <<SP, "SECURITY DEFINER">> ELSE <<>>)
    \o <<SP, "AS", SP, "$$", source, "$$">>

\* Function.rename: the text it builds
RenameQuery(name, newname) ==
    <<"ALTER FUNCTION", SP, pg_quote_identifier(name), SP, "RENAME TO", SP,
      pg_quote_identifier(newname)>>

\* Function.set_owner: the text it builds
SetOwnerQuery(name, username) ==
    <<"ALTER FUNCTION", SP, pg_quote_identifier(name), SP, "OWNER TO", SP, username>>

\* the text of a drop that never cascades
DropQueryNoCascade(name, cascade) ==
    <<"DROP FUNCTION", SP, pg_quote_identifier(name)>>

\* Function.drop: the text it builds
DropQuery(name, cascade) ==
    <<"DROP FUNCTION", SP, pg_quote_identifier(name)>>
    \o (IF cascade THEN <<SP, "CASCADE">> ELSE <<>>)

\* the catalog query of Function.__exists_in_db
InspectQuery == <<"SELECT">>

----------------------------------------------------------------------------
(* The catalog server *)

\* the pieces of a statement text that end a word by themselves
Punctuation == {"(", ")", "$$"}

\* the pieces whose own text ends in punctuation, so that what follows
\* them starts a new token
SelfDelimiting == {ArrayType}

RECURSIVE Lex(_, _, _)
\* the tokens of the pieces of q from the i-th on, after the unfinished
\* word `word`: pieces with no blank and no punctuation between them run
\* together into one token
Lex(q, i, word) ==
    LET flush == IF word = "" THEN <<>> ELSE <<word>> IN
    IF i > Len(q) THEN flush
    ELSE IF q[i] = SP THEN flush \o Lex(q, i + 1, "")
    ELSE IF q[i] \in Punctuation THEN flush \o <<q[i]>> \o Lex(q, i + 1, "")
    ELSE IF q[i] \in SelfDelimiting THEN <<word \o q[i]>> \o Lex(q, i + 1, "")
    ELSE Lex(q, i + 1, word \o q[i])

\* the tokens of a statement text
Tokens(q) == Lex(q, 1, "")

\* the text parses: LANGUAGE is a token of its own
WellFormed(q) ==
    LET t == Tokens(q) IN \E i \in 1..Len(t) : t[i] = "LANGUAGE"

Pieces(q) == {q[i] : i \in 1..Len(q)}

Unquote(piece) == CHOOSE n \in Names : pg_quote_identifier(n) = piece

\* the command a statement text spells
Command(q) ==
    CASE q[1] = "CREATE OR REPLACE FUNCTION" ->
           LET k == IF q[5] = ")" THEN 5 ELSE 6 IN
           [kind |-> "create",
            name |-> Unquote(q[3]),
            arguments |-> IF k = 5 THEN "" ELSE q[5],
            return_type |-> q[k + 3],
            language |-> q[k + 6],
            volatile |-> IF "IMMUTABLE" \in Pieces(q) THEN "i"
                         ELSE IF "STABLE" \in Pieces(q) THEN "s" ELSE "v",
            is_strict |-> "STRICT" \in Pieces(q),
            is_secdef |-> "SECURITY DEFINER" \in Pieces(q),
            source |-> q[Len(q) - 1]]
      [] q[1] = "ALTER FUNCTION" /\ q[5] = "OWNER TO" ->
           [kind |-> "owner", name |-> Unquote(q[3]), owner |-> q[7]]
      [] q[1] = "ALTER FUNCTION" /\ q[5] = "RENAME TO" ->
           [kind |-> "rename", name |-> Unquote(q[3]), newname |-> Unquote(q[7])]
      [] q[1] = "DROP FUNCTION" ->
           [kind |-> "drop", name |-> Unquote(q[3]), cascade |-> "CASCADE" \in Pieces(q)]

Named(cat, name) == {r \in cat : r.name = name}

\* whether the server can carry the statement out on catalog cat
DbAccepts(cat, q) ==
    LET c == Command(q) IN
    CASE c.kind = "create" ->
           /\ WellFormed(q)
           /\ c.language \in Languages
           /\ c.return_type \in TypeTexts
           /\ c.source \in Sources
           /\ \A r \in Named(cat, c.name) :
                r.arguments = c.arguments => r.return_type = TypName(c.return_type)
      [] c.kind = "owner" ->
           /\ Cardinality(Named(cat, c.name)) = 1
           /\ c.owner \in Roles
      [] c.kind = "rename" ->
           /\ Cardinality(Named(cat, c.name)) = 1
           /\ \A r \in Named(cat, c.name) :
                \A r2 \in Named(cat, c.newname) : r2.arguments # r.arguments
      [] c.kind = "drop" ->
           Cardinality(Named(cat, c.name)) = 1

\* the catalog after the server carried the statement out
DbApply(cat, q) ==
    LET c == Command(q) IN
    CASE c.kind = "create" ->
           LET old == {r \in Named(cat, c.name) : r.arguments = c.arguments}
               owner == IF old = {} THEN SessionUser ELSE (CHOOSE r \in old : TRUE).owner
           IN (cat \ old) \cup
              {[name |-> c.name, owner |-> owner, arguments |-> c.arguments,
                language |-> c.language, return_type |-> TypName(c.return_type),
                volatile |-> c.volatile, is_strict |-> c.is_strict,
                is_secdef |-> c.is_secdef, source |-> c.source]}
      [] c.kind = "owner" ->
           {IF r.name = c.name THEN [r EXCEPT !.owner = c.owner] ELSE r : r \in cat}
      [] c.kind = "rename" ->
           {IF r.name = c.name THEN [r EXCEPT !.name = c.newname] ELSE r : r \in cat}
      [] c.kind = "drop" ->
           cat \ Named(cat, c.name)

----------------------------------------------------------------------------
(* class Function.  A method takes the running state w of the invocation,   *)
(* [tx, sent, executed_queries, failure, warnings, exists, info], and gives *)
(* the state after it.  Once module.fail_json has been called              *)
(* (failure # "") the process has exited and nothing further happens.      *)

InitInfo ==
    [owner |-> "", language |-> "", arguments |-> "", return_type |-> "",
     volatile |-> "", is_strict |-> "", is_secdef |-> "", source |-> ""]

InfoOf(r) ==
    [owner |-> r.owner, arguments |-> r.arguments, language |-> r.language,
     return_type |-> r.return_type, volatile |-> r.volatile,
     is_strict |-> r.is_strict, is_secdef |-> r.is_secdef, source |-> r.source]

\* exec_sql(self, query, return_bool=True): run a statement; ok is the
\* server's side of it (privileges, dependencies, ...)
exec_sql(w, query, ok) ==
    IF w.failure # "" THEN w
    ELSE IF ok /\ DbAccepts(w.tx, query)
    THEN [w EXCEPT !.sent = Append(@, query),
                   !.tx = DbApply(w.tx, query),
                   !.executed_queries = Append(@, query)]
    ELSE [w EXCEPT !.sent = Append(@, query), !.failure = "execution"]

\* the catalog query run with add_to_executed left at its default, so that
\* it is recorded like any other statement
ExistsInDbRecorded(w, name) ==
    LET res == Named(w.tx, name)
        w1 == [w EXCEPT !.sent = Append(@, InspectQuery),
                        !.executed_queries = Append(@, InspectQuery)]
    IN IF res # {}
       THEN {[w1 EXCEPT !.exists = TRUE, !.info = InfoOf(r)] : r \in res}
       ELSE {[w1 EXCEPT !.exists = FALSE]}

\* the catalog query with more than one row taken as an error
ExistsInDbSingleMatch(w, name) ==
    LET res == Named(w.tx, name)
        w1 == [w EXCEPT !.sent = Append(@, InspectQuery)]
    IN IF Cardinality(res) > 1
       THEN {[w1 EXCEPT !.failure = "inspection"]}
       ELSE IF res # {}
       THEN {[w1 EXCEPT !.exists = TRUE, !.info = InfoOf(r)] : r \in res}
       ELSE {[w1 EXCEPT !.exists = FALSE]}

\* Function.__exists_in_db: the states after the catalog query, one for each
\* row the server may return first (the query has no ORDER BY)
ExistsInDb(w, name) ==
    LET res == Named(w.tx, name)
        w1 == [w EXCEPT !.sent = Append(@, InspectQuery)]
    IN IF res # {}
       THEN {[w1 EXCEPT !.exists = TRUE, !.info = InfoOf(r)] : r \in res}
       ELSE {[w1 EXCEPT !.exists = FALSE]}

\* Function.set_owner
set_owner(w, name, username, ok) ==
    exec_sql(w, SetOwnerQuery(name, username), ok)

\* Function.rename
rename(w, name, newname, ok) ==
    exec_sql(w, RenameQuery(name, newname), ok)

\* drop with the failure of its statement caught and passed over
dropIgnoringFailure(w, name, cascade, ok) ==
    IF ~w.exists
    THEN [w |-> w, ret |-> "False"]
    ELSE [w |-> [exec_sql(w, DropQuery(name, cascade), ok) EXCEPT !.failure = ""],
          ret |-> "True"]

\* Function.drop: the state after, and the value returned
drop(w, name, cascade, ok) ==
    IF ~w.exists
    THEN [w |-> w, ret |-> "False"]
    ELSE [w |-> exec_sql(w, DropQuery(name, cascade), ok), ret |-> "True"]

\* Function.create_or_replace
create_or_replace(w, name, language, return_type, source, args, vol, is_strict, is_secdef, ok) ==
    exec_sql(w, CreateOrReplaceQuery(name, language, return_type, source, args,
                                     vol, is_strict, is_secdef), ok)

\* info["arguments"] != arguments
ArgumentsDiffer(infoArguments, args) ==
    ~(args.t = "str" /\ args.s = infoArguments)

\* module.fail_json(msg=...)
fail_json(w, kind) == IF w.failure # "" THEN w ELSE [w EXCEPT !.failure = kind]

\* module.warn(...)
warn(w, what) == IF w.failure # "" THEN w ELSE [w EXCEPT !.warnings = Append(@, what)]

\* Function.create on an object that exists, without the return-type check
CreateExistingNoTypeCheck(w, name, a, ok1, ok2) ==
    LET ownerChange == Truthy(a.owner) /\ w.info.owner # a.owner
        w2 == IF ownerChange THEN set_owner(w, name, a.owner, ok1) ELSE w
        replace_function ==
            \/ w.info.language # a.language
            \/ ArgumentsDiffer(w.info.arguments, a.arguments)
            \/ w.info.volatile # a.volatile
            \/ w.info.is_strict # a.is_strict
            \/ w.info.is_secdef # a.is_secdef
            \/ w.info.source # a.source
        w4 == IF replace_function
              THEN create_or_replace(w2, name, a.language, a.return_type, a.source,
                                     a.arguments, a.volatile, a.is_strict, a.is_secdef, ok2)
              ELSE w2
    IN [w |-> w4, ret |-> IF ownerChange \/ replace_function THEN "True" ELSE "False"]

\* Function.create on an object that exists, with the change of owner left
\* out of the value returned
CreateExistingOwnerNotCounted(w, name, a, ok1, ok2) ==
    LET w1 == IF w.info.return_type # a.return_type
              THEN fail_json(w, "return_type") ELSE w
        ownerChange == Truthy(a.owner) /\ w.info.owner # a.owner
        w2 == IF ownerChange THEN set_owner(w1, name, a.owner, ok1) ELSE w1
        w3 == IF ArgumentsDiffer(w.info.arguments, a.arguments)
              THEN warn(w2, "overload") ELSE w2
        replace_function ==
            \/ w.info.language # a.language
            \/ ArgumentsDiffer(w.info.arguments, a.arguments)
            \/ w.info.volatile # a.volatile
            \/ w.info.is_strict # a.is_strict
            \/ w.info.is_secdef # a.is_secdef
            \/ w.info.source # a.source
        w4 == IF replace_function
              THEN create_or_replace(w3, name, a.language, a.return_type, a.source,
                                     a.arguments, a.volatile, a.is_strict, a.is_secdef, ok2)
              ELSE w3
    IN [w |-> w4, ret |-> IF replace_function THEN "True" ELSE "False"]

\* Function.create on an object that exists
CreateExisting(w, name, a, ok1, ok2) ==
    LET w1 == IF w.info.return_type # a.return_type
              THEN fail_json(w, "return_type") ELSE w
        ownerChange == Truthy(a.owner) /\ w.info.owner # a.owner
        w2 == IF ownerChange THEN set_owner(w1, name, a.owner, ok1) ELSE w1
        w3 == IF ArgumentsDiffer(w.info.arguments, a.arguments)
              THEN warn(w2, "overload") ELSE w2
        replace_function ==
            \/ w.info.language # a.language
            \/ ArgumentsDiffer(w.info.arguments, a.arguments)
            \/ w.info.volatile # a.volatile
            \/ w.info.is_strict # a.is_strict
            \/ w.info.is_secdef # a.is_secdef
            \/ w.info.source # a.source
        w4 == IF replace_function
              THEN create_or_replace(w3, name, a.language, a.return_type, a.source,
                                     a.arguments, a.volatile, a.is_strict, a.is_secdef, ok2)
              ELSE w3
    IN [w |-> w4, ret |-> IF ownerChange \/ replace_function THEN "True" ELSE "False"]

\* Function.create on an object that does not exist: it ends without a
\* return statement, so the caller gets None
CreateAbsent(w, name, a, ok1, ok2) ==
    LET w1 == create_or_replace(w, name, a.language, a.return_type, a.source,
                                a.arguments, a.volatile, a.is_strict, a.is_secdef, ok1)
        w2 == IF Truthy(a.owner) THEN set_owner(w1, name, a.owner, ok2) ELSE w1
    IN [w |-> w2, ret |-> None]

\* Function.create(language, return_type, source, arguments, volatile,
\* is_strict, is_secdef, owner), a the record of its arguments
create(w, name, a, ok1, ok2) ==
    IF w.exists THEN CreateExisting(w, name, a, ok1, ok2)
    ELSE CreateAbsent(w, name, a, ok1, ok2)

----------------------------------------------------------------------------
(* main() *)

NoKw == [function |-> "", state |-> ""]

W == [tx |-> tx, sent |-> sent, executed_queries |-> executed_queries,
      failure |-> failure, warnings |-> warnings, exists |-> exists, info |-> info]

\* the variables a method works on take the values of w; pc follows failure
Becomes(w, next) ==
    /\ tx' = w.tx
    /\ sent' = w.sent
    /\ executed_queries' = w.executed_queries
    /\ failure' = w.failure
    /\ warnings' = w.warnings
    /\ exists' = w.exists
    /\ info' = w.info
    /\ pc' = IF w.failure # "" THEN "failed" ELSE next

\* the mutual exclusions, with owner forgotten in the rename check
ExcludedOwnerForgotten(p) ==
    LET attrs == \/ Truthy(p.language)
                 \/ Truthy(p.return_type)
                 \/ Truthy(p.source)
                 \/ Truthy(p.volatile)
                 \/ p.strict
                 \/ p.security_definer
    IN \/ p.state = "absent" /\ (Truthy(p.rename) \/ attrs \/ Truthy(p.owner))
       \/ Truthy(p.rename) /\ attrs

\* the mutual exclusions main checks before it connects
Excluded(p) ==
    LET attrs == \/ Truthy(p.language)
                 \/ Truthy(p.return_type)
                 \/ Truthy(p.source)
                 \/ Truthy(p.volatile)
                 \/ p.strict
                 \/ p.security_definer
                 \/ Truthy(p.owner)
    IN \/ p.state = "absent" /\ (Truthy(p.rename) \/ attrs)
       \/ Truthy(p.rename) /\ attrs

\* main, from reading module.params to the mutual-exclusion checks
Validate(p) ==
    /\ runs' = runs + 1
    /\ params' = p
    /\ db0' = db
    /\ conn' = "none"
    /\ tx' = {}
    /\ arguments' = p.arguments
    /\ volatile' = p.volatile
    /\ exists' = FALSE
    /\ info' = InitInfo
    /\ executed_queries' = <<>>
    /\ changed' = "False"
    /\ kw' = NoKw
    /\ sent' = <<>>
    /\ warnings' = IF p.state = "present" /\ p.cascade
                   THEN <<"cascade_ignored">> ELSE <<>>
    /\ failure' = IF Excluded(p) THEN "config" ELSE ""
    /\ pc' = IF Excluded(p) THEN "failed" ELSE "validated"
    /\ UNCHANGED db

\* the first invocation, with any request
Invoke ==
    /\ pc = "idle"
    /\ runs = 0
    /\ \E p \in Requests : Validate(p)

\* the same request run again, after the previous invocation has ended
\* with module.exit_json (one that ended in fail_json committed nothing)
Reinvoke ==
    /\ pc = "done"
    /\ runs < MaxRuns
    /\ Validate(params)

\* the record main reports for an object that exists
KwPresent(i) ==
    [function |-> FuncName, state |-> "present", owner |-> i.owner,
     language |-> i.language, return_type |-> i.return_type,
     arguments |-> i.arguments, volatile |-> i.volatile,
     is_strict |-> i.is_strict, is_secdef |-> i.is_secdef, source |-> i.source]

\* main: connect, convert the desired state, construct Function, default kw
Connect ==
    /\ pc = "validated"
    /\ conn' = "open"
    /\ arguments' = ConvertArguments(arguments)
    /\ volatile' = ConvertVolatile(volatile)
    /\ \E w \in ExistsInDb([W EXCEPT !.tx = db], FuncName) :
          /\ Becomes(w, "inspected")
          /\ kw' = IF w.exists THEN KwPresent(w.info)
                   ELSE [function |-> FuncName, state |-> ""]
    /\ UNCHANGED <<db, params, changed, runs, db0>>

\* main: if state == "absent": changed = func_obj.drop(cascade=cascade)
Drop ==
    /\ pc = "inspected"
    /\ params.state = "absent"
    /\ \E ok \in BOOLEAN :
          LET r == drop(W, FuncName, params.cascade, ok) IN
          /\ Becomes(r.w, "acted")
          /\ changed' = r.ret
    /\ UNCHANGED <<db, conn, params, arguments, volatile, kw, runs, db0>>

\* main: elif newname: changed = func_obj.rename(newname)
Rename ==
    /\ pc = "inspected"
    /\ params.state # "absent"
    /\ Truthy(params.rename)
    /\ \E ok \in BOOLEAN :
          /\ Becomes(rename(W, FuncName, params.rename, ok), "acted")
          /\ changed' = "True"
    /\ UNCHANGED <<db, conn, params, arguments, volatile, kw, runs, db0>>

\* the arguments of main's call of func_obj.create: owner is not among
\* them, so create's default, "", applies
CreateArgs ==
    [language |-> params.language, return_type |-> params.return_type,
     source |-> params.source, arguments |-> arguments, volatile |-> volatile,
     is_strict |-> params.strict, is_secdef |-> params.security_definer,
     owner |-> ""]

\* main: elif state == "present": changed = func_obj.create(...)
Create ==
    /\ pc = "inspected"
    /\ params.state = "present"
    /\ ~Truthy(params.rename)
    /\ \E ok1, ok2 \in BOOLEAN :
          LET r == create(W, FuncName, CreateArgs, ok1, ok2) IN
          /\ Becomes(r.w, "acted")
          /\ changed' = r.ret
    /\ UNCHANGED <<db, conn, params, arguments, volatile, kw, runs, db0>>

\* a commit also in check mode
EndTransactionAlwaysCommit(check_mode, committed, session) == session

\* main: if module.check_mode: db_connection.rollback() else: db_connection.commit()
\* gives the catalog the session sees afterwards, which is then also the committed one
EndTransaction(check_mode, committed, session) ==
    IF check_mode THEN committed ELSE session

\* main, from `if changed:` to module.exit_json.  Closing the connection
\* discards what the session has not committed.
Finish ==
    /\ pc = "acted"
    /\ IF changed = "True"
       THEN LET tx1 == EndTransaction(params.check_mode, db, tx)
            IN \E w \in ExistsInDb([W EXCEPT !.tx = tx1], FuncName) :
                  /\ Becomes(w, "done")
                  /\ db' = tx1
                  /\ kw' = [queries |-> executed_queries, changed |-> changed]
                           @@ (IF w.exists THEN KwPresent(w.info)
                               ELSE [kw EXCEPT !.state = "absent"])
       ELSE /\ Becomes(W, "done")
            /\ kw' = [queries |-> executed_queries, changed |-> changed] @@ kw
            /\ UNCHANGED db
    /\ conn' = "closed"
    /\ UNCHANGED <<params, arguments, volatile, changed, runs, db0>>

Init ==
    /\ db \in InitialCatalogs
    /\ tx = {}
    /\ conn = "none"
    /\ pc = "idle"
    /\ params = DefaultRequest
    /\ arguments = PyNone
    /\ volatile = None
    /\ exists = FALSE
    /\ info = InitInfo
    /\ executed_queries = <<>>
    /\ changed = "False"
    /\ kw = NoKw
    /\ warnings = <<>>
    /\ failure = ""
    /\ sent = <<>>
    /\ runs = 0
    /\ db0 = db

Next ==
    \/ Invoke
    \/ Reinvoke
    \/ Connect
    \/ Drop
    \/ Rename
    \/ Create
    \/ Finish

Spec == Init /\ [][Next]_vars

----------------------------------------------------------------------------
(* The class Function used by itself: an object is constructed, which      *)
(* inspects the catalog, and create is called once with arguments of the   *)
(* caller's choice, owner among them.  Nothing is committed.               *)

\* the keyword arguments of a call of Function.create
CreateCalls ==
    [language : Languages,
     return_type : TypeTexts,
     source : Sources,
     arguments : {PyNone, PyStr(""), PyStr("a integer, b integer")},
     volatile : {"i", "s", "v"},
     is_strict : BOOLEAN,
     is_secdef : BOOLEAN,
     owner : {""} \cup Roles]

\* Function.__init__: the catalog is inspected in the caller's session
FunctionInit ==
    /\ pc = "idle"
    /\ conn' = "open"
    /\ \E w \in ExistsInDb([W EXCEPT !.tx = db], FuncName) :
          Becomes(w, "inspected")
    /\ UNCHANGED <<db, params, arguments, volatile, changed, kw, runs, db0>>

\* Function.create(language, return_type, source, arguments, volatile,
\* is_strict, is_secdef, owner); the arguments are kept in params,
\* arguments and volatile
FunctionCreate ==
    /\ pc = "inspected"
    /\ \E a \in CreateCalls, ok1, ok2 \in BOOLEAN :
          LET r == create(W, FuncName, a, ok1, ok2) IN
          /\ Becomes(r.w, "acted")
          /\ changed' = r.ret
          /\ params' = [DefaultRequest EXCEPT !.language = a.language,
                                              !.return_type = a.return_type,
                                              !.source = a.source,
                                              !.strict = a.is_strict,
                                              !.security_definer = a.is_secdef,
                                              !.owner = a.owner]
          /\ arguments' = a.arguments
          /\ volatile' = a.volatile
    /\ UNCHANGED <<db, conn, kw, runs, db0>>

NextFunction ==
    \/ FunctionInit
    \/ FunctionCreate

SpecFunction == Init /\ [][NextFunction]_vars

----------------------------------------------------------------------------
(* Vocabulary of the properties *)

RECURSIVE ApplyAll(_, _)
\* the catalog after the statements qs, in order, on catalog cat
ApplyAll(cat, qs) ==
    IF qs = <<>> THEN cat ELSE ApplyAll(DbApply(cat, Head(qs)), Tail(qs))

IsMutating(q) == q # InspectQuery

\* the statements given to the server other than catalog queries
Mutating(qs) == SelectSeq(qs, IsMutating)

Kind(q) ==
    CASE q[1] = "CREATE OR REPLACE FUNCTION" -> "create"
      [] q[1] = "DROP FUNCTION" -> "drop"
      [] q[1] = "ALTER FUNCTION" /\ q[5] = "OWNER TO" -> "owner"
      [] q[1] = "ALTER FUNCTION" /\ q[5] = "RENAME TO" -> "rename"
      [] OTHER -> "select"

PresentMode == params.state = "present" /\ ~Truthy(params.rename)
RenameMode == params.state = "present" /\ Truthy(params.rename)
AbsentMode == params.state = "absent" /\ ~Truthy(params.rename)

\* the invocation got past the checks of its options
Started == pc \in {"inspected", "acted", "done", "failed"} /\ failure # "config"
\* the invocation has ended, one way or the other
Ended == pc \in {"done", "failed"} /\ failure # "config"

ExistedAtStart == Named(db0, FuncName) # {}

\* the desired argument list as the catalog renders it
DesiredArguments ==
    IF params.arguments.t = "list" THEN Join(", ", params.arguments.items) ELSE ""

\* the desired volatility as the catalog codes it
DesiredVolatile ==
    CASE params.volatile = "immutable" -> "i"
      [] params.volatile = "stable" -> "s"
      [] OTHER -> "v"

\* the reported record k is that of an existing object with the desired fields
ReportsDesired(k) ==
    /\ k.state = "present"
    /\ k.language = params.language
    /\ k.return_type = TypName(params.return_type)
    /\ k.arguments = DesiredArguments
    /\ k.volatile = DesiredVolatile
    /\ k.is_strict = params.strict
    /\ k.is_secdef = params.security_definer
    /\ k.source = params.source

----------------------------------------------------------------------------
(* C1: idempotence.  When a present-mode, non-dry-run request is run again  *)
(* after a run of it that ended without failure, the second run reports    *)
(* changed=false and an empty list of executed statements.                 *)
C1_Idempotent ==
    (pc = "done" /\ runs >= 2 /\ PresentMode /\ ~params.check_mode)
        => (kw.changed = "False" /\ kw.queries = <<>>)

(* C2: present mode on an object absent from the catalog issues exactly    *)
(* one CREATE OR REPLACE, reports changed=true and returns a record that   *)
(* matches the desired one.                                                *)
C2_CreateAbsentReported ==
    (pc = "done" /\ PresentMode /\ ~ExistedAtStart)
        => /\ Len(kw.queries) = 1
           /\ Kind(kw.queries[1]) = "create"
           /\ kw.changed = "True"
           /\ ReportsDesired(kw)

(* C3: a non-dry-run invocation that issued statements, all successful,    *)
(* has committed them when it ends: the committed catalog is the one the   *)
(* issued statements lead to from the catalog the invocation started on.   *)
C3_IssuedIsCommitted ==
    (pc = "done" /\ ~params.check_mode /\ executed_queries # <<>>)
        => (conn = "closed" /\ db = ApplyAll(db0, executed_queries))

(* C4: a present-mode request on an existing object whose return type      *)
(* differs from the desired one fails on the return type, whatever else    *)
(* differs, with no statement built or issued and the catalog untouched.   *)
C4_ReturnTypeFatal ==
    (/\ PresentMode
     /\ pc \in {"acted", "done", "failed"}
     /\ ExistedAtStart
     /\ \A r \in Named(db0, FuncName) : r.return_type # params.return_type)
        => /\ pc = "failed"
           /\ failure = "return_type"
           /\ executed_queries = <<>>
           /\ Mutating(sent) = <<>>
           /\ tx = db0
           /\ db = db0

\* a return-type failure on a request that also differs in language and
\* volatility from the object
C4_Witness ==
    /\ PresentMode
    /\ pc = "failed"
    /\ failure = "return_type"
    /\ info.language # params.language
    /\ info.volatile # volatile
    /\ params.strict

(* C5: a request with state=absent or with a rename target that also sets  *)
(* a present-only option is rejected as a configuration error before the   *)
(* connection is opened and before any query or statement is issued.       *)
C5_ConflictRejectedFirst ==
    (/\ pc # "idle"
     /\ params.state = "absent" \/ Truthy(params.rename)
     /\ \E o \in PresentOnly : IsSet(params, o))
        => /\ pc = "failed"
           /\ failure = "config"
           /\ conn = "none"
           /\ sent = <<>>
           /\ executed_queries = <<>>
           /\ db = db0

\* a rename request that sets an owner has been rejected
C5_Witness ==
    /\ pc = "failed"
    /\ failure = "config"
    /\ params.state = "present"
    /\ Truthy(params.rename)
    /\ Truthy(params.owner)
    /\ conn = "none"

(* C6: dry-run isolation.  After a dry-run invocation that reports         *)
(* changed=true, in any mode, the committed catalog is the one the         *)
(* invocation started on.                                                  *)
C6_DryRunIsolation ==
    (pc = "done" /\ params.check_mode /\ kw.changed = "True")
        => db = db0

\* a dry run in absent mode whose DROP succeeded in the session
C6_Witness ==
    /\ pc = "done"
    /\ params.check_mode
    /\ AbsentMode
    /\ kw.changed = "True"
    /\ Len(executed_queries) = 1
    /\ Kind(executed_queries[1]) = "drop"
    /\ ApplyAll(db0, executed_queries) # db0

\* the reported record k is that of catalog row r
Reports(k, r) ==
    /\ k.state = "present"
    /\ k.owner = r.owner
    /\ k.language = r.language
    /\ k.return_type = r.return_type
    /\ k.arguments = r.arguments
    /\ k.volatile = r.volatile
    /\ k.is_strict = r.is_strict
    /\ k.is_secdef = r.is_secdef
    /\ k.source = r.source

(* C7: in a dry run that reports changed=true the re-inspection sees the   *)
(* effects of the issued statements, so the record returned is the state   *)
(* the catalog would have after the change, not the one before it.         *)
C7_DryRunReportsOutcome ==
    (pc = "done" /\ params.check_mode /\ kw.changed = "True")
        => LET after == Named(ApplyAll(db0, executed_queries), FuncName) IN
           IF after = {} THEN kw.state = "absent"
           ELSE \E r \in after : Reports(kw, r)

(* C8: the owner of a present-mode request is reconciled.  When it differs *)
(* from the current owner, or the object is absent, an ALTER FUNCTION ...  *)
(* OWNER TO for it is issued, and after a successful non-dry-run           *)
(* invocation the object is owned by the desired owner.                    *)
C8_OwnerReconciled ==
    (pc = "done" /\ PresentMode /\ ~params.check_mode /\ Truthy(params.owner))
        => /\ (\A r \in Named(db0, FuncName) : r.owner # params.owner)
                => \E i \in 1..Len(executed_queries) :
                      /\ Kind(executed_queries[i]) = "owner"
                      /\ executed_queries[i][7] = params.owner
           /\ Named(db, FuncName) # {}
           /\ \A r \in Named(db, FuncName) : r.owner = params.owner

(* C9: absent mode.  If the object exists, exactly one DROP FUNCTION is    *)
(* issued, with CASCADE exactly when the cascade option is true; when it   *)
(* succeeds changed=true and, in a non-dry-run, the reported state is      *)
(* absent.  If the object does not exist no statement is issued and        *)
(* changed=false.                                                          *)
C9_Absent ==
    (AbsentMode /\ pc \in {"acted", "done", "failed"} /\ failure # "config")
        => IF ExistedAtStart
           THEN /\ Len(Mutating(sent)) = 1
                /\ Mutating(sent)[1][1] = "DROP FUNCTION"
                /\ Mutating(sent)[1][3] = "\"f\""
                /\ ("CASCADE" \in Pieces(Mutating(sent)[1])) <=> params.cascade
                /\ Len(Mutating(sent)[1]) = IF params.cascade THEN 5 ELSE 3
                /\ pc # "failed" => changed = "True" /\ executed_queries = Mutating(sent)
                /\ pc = "done" => kw.changed = "True" /\ kw.queries = executed_queries
                /\ (pc = "done" /\ ~params.check_mode)
                      => kw.state = "absent" /\ Named(db, FuncName) = {}
           ELSE /\ Mutating(sent) = <<>>
                /\ pc # "failed"
                /\ changed = "False"
                /\ pc = "done" => kw.changed = "False" /\ kw.queries = <<>>

\* a committed DROP ... CASCADE of an existing object, reported absent
C9_Witness ==
    /\ AbsentMode
    /\ pc = "done"
    /\ ExistedAtStart
    /\ params.cascade
    /\ ~params.check_mode
    /\ kw.changed = "True"
    /\ kw.state = "absent"
    /\ Len(kw.queries) = 1

(* C10: rename mode.  If the source object exists an ALTER FUNCTION ...    *)
(* RENAME TO is issued; if it does not exist nothing is issued, the        *)
(* invocation does not fail and changed=false.                             *)
C10_Rename ==
    (RenameMode /\ pc \in {"acted", "done", "failed"} /\ failure # "config")
        => IF ExistedAtStart
           THEN /\ Len(Mutating(sent)) = 1
                /\ Kind(Mutating(sent)[1]) = "rename"
           ELSE /\ Mutating(sent) = <<>>
                /\ pc # "failed"
                /\ changed = "False"


\* a statement given to the server is not among those recorded as executed:
\* the server has refused it
StatementFailed == Len(Mutating(sent)) > Len(executed_queries)

(* C11: when a statement the invocation issues fails, the invocation ends  *)
(* there as failed: the failing statement is the last one given to the     *)
(* server and was given once, the statements before it are those recorded  *)
(* as executed, and the committed catalog is the one the invocation        *)
(* started with.                                                           *)
C11_FailureAborts ==
    StatementFailed =>
        /\ pc = "failed"
        /\ failure = "execution"
        /\ IsMutating(sent[Len(sent)])
        /\ Mutating(sent) = Append(executed_queries, sent[Len(sent)])
        /\ db = db0

C11_Witness ==
    /\ StatementFailed
    /\ pc = "failed"
    /\ PresentMode
    /\ ExistedAtStart
    /\ Kind(sent[Len(sent)]) = "create"


(* C12: an invocation that ends without failure reports changed=true      *)
(* exactly when the list of executed statements it reports is not empty.   *)
C12_ChangedIffStatements ==
    pc = "done" => ((kw.changed = "True") <=> (kw.queries # <<>>))


(* C13: the statement list an invocation returns holds the mutating        *)
(* statements it gave to the server (CREATE OR REPLACE, ALTER .. OWNER TO,  *)
(* ALTER .. RENAME TO, DROP), each once and in the order given; the         *)
(* catalog queries of the inspection are not in it.                        *)
C13_QueriesAreTheMutations ==
    pc = "done" =>
        /\ kw.queries = Mutating(sent)
        /\ \A i \in 1..Len(kw.queries) :
              Kind(kw.queries[i]) \in {"create", "owner", "rename", "drop"}

C13_Witness ==
    /\ pc = "done"
    /\ kw.queries # <<>>
    /\ Len(sent) > Len(kw.queries) + 1


\* create was called on an object that exists, with the arguments kept in
\* params, arguments and volatile (SpecFunction)
CreateCalledOnExisting == pc \in {"acted", "failed"} /\ exists

\* the desired owner is set and is not the inspected one
OwnerDiffers == Truthy(params.owner) /\ info.owner # params.owner

\* one of source, language, volatility, strictness, security-definer
\* differs from the inspected object
BodyDiffers ==
    \/ info.source # params.source
    \/ info.language # params.language
    \/ info.volatile # volatile
    \/ info.is_strict # params.strict
    \/ info.is_secdef # params.security_definer

(* C14: when create is called on an existing object that needs both an     *)
(* owner change and a change of its body or signature, the first mutating  *)
(* statement is the CREATE OR REPLACE and the ALTER .. OWNER TO comes       *)
(* second, after the replace has succeeded.                                *)
C14_ReplaceBeforeOwner ==
    (/\ CreateCalledOnExisting
     /\ info.return_type = params.return_type
     /\ OwnerDiffers
     /\ (BodyDiffers \/ ArgumentsDiffer(info.arguments, arguments)))
        => LET m == Mutating(sent) IN
           /\ m # <<>>
           /\ Kind(m[1]) = "create"
           /\ Len(m) >= 2 => Kind(m[2]) = "owner"
           /\ pc = "acted" => Len(m) = 2


\* create was called with the inspected object's return type and with
\* nothing but the owner different from the inspected object
OnlyOwnerDiffers ==
    /\ CreateCalledOnExisting
    /\ info.return_type = params.return_type
    /\ OwnerDiffers
    /\ ~BodyDiffers
    /\ ~ArgumentsDiffer(info.arguments, arguments)

(* C15: when create is called on an existing object with a desired owner   *)
(* that is set and differs from the current one, and every other field     *)
(* equal, exactly one statement is issued, an ALTER FUNCTION .. OWNER TO    *)
(* the desired owner, no CREATE OR REPLACE, and create returns true.        *)
C15_OwnerOnly ==
    OnlyOwnerDiffers =>
        LET m == Mutating(sent) IN
        /\ Len(m) = 1
        /\ Kind(m[1]) = "owner"
        /\ Command(m[1]).name = FuncName
        /\ Command(m[1]).owner = params.owner
        /\ pc = "acted" => (changed = "True" /\ executed_queries = m)

C15_Witness ==
    /\ OnlyOwnerDiffers
    /\ pc = "acted"
    /\ changed = "True"
    /\ \A r \in Named(tx, FuncName) : r.owner = params.owner


\* create was called with the inspected object's return type and owner and
\* with a body field different from the inspected object
BodyOnlyDiffers ==
    /\ CreateCalledOnExisting
    /\ info.return_type = params.return_type
    /\ ~OwnerDiffers
    /\ BodyDiffers

\* the statement q is a CREATE OR REPLACE of the function with the values
\* create was called with
CarriesDesired(q) ==
    /\ Kind(q) = "create"
    /\ Command(q).name = FuncName
    /\ Command(q).return_type = params.return_type
    /\ Command(q).language = params.language
    /\ Command(q).source = params.source
    /\ Command(q).volatile = volatile
    /\ Command(q).is_strict = params.strict
    /\ Command(q).is_secdef = params.security_definer
    /\ Command(q).arguments = (IF arguments.t = "str" THEN arguments.s ELSE "")

(* C16: when create is called on an existing object with return type and   *)
(* owner equal to the current ones and at least one of source, language,   *)
(* volatility, strictness, security-definer different, exactly one         *)
(* statement is issued, a CREATE OR REPLACE the server can read, with the  *)
(* desired value of every field, no owner statement, and create returns    *)
(* true.                                                                   *)
C16_BodyOnly ==
    BodyOnlyDiffers =>
        LET m == Mutating(sent) IN
        /\ Len(m) = 1
        /\ CarriesDesired(m[1])
        /\ WellFormed(m[1])
        /\ pc = "acted" => (changed = "True" /\ executed_queries = m)


\* main has called create and the object it inspected has the desired value
\* in every field; the owner counts when the request sets one
InspectedEqualsDesired ==
    /\ PresentMode
    /\ pc \in {"acted", "failed"}
    /\ failure # "config"
    /\ exists
    /\ info.language = params.language
    /\ info.return_type = params.return_type
    /\ info.source = params.source
    /\ info.arguments = DesiredArguments
    /\ info.volatile = DesiredVolatile
    /\ info.is_strict = params.strict
    /\ info.is_secdef = params.security_definer
    /\ Truthy(params.owner) => info.owner = params.owner

(* C17: when the existing object equals the desired one in every field,    *)
(* an object without arguments included, create issues no statement,       *)
(* raises no notice about overloading and returns changed=false.           *)
C17_NoOp ==
    InspectedEqualsDesired =>
        /\ Mutating(sent) = <<>>
        /\ \A i \in 1..Len(warnings) : warnings[i] # "overload"
        /\ changed = "False"
        /\ pc = "acted"


\* main has called create; the catalog it started with has one routine of
\* the name, with the desired return type and another argument list than
\* the desired one
SignatureDiffers ==
    /\ PresentMode
    /\ pc \in {"acted", "done", "failed"}
    /\ failure # "config"
    /\ Cardinality(Named(db0, FuncName)) = 1
    /\ \A r \in Named(db0, FuncName) :
          r.return_type = params.return_type /\ r.arguments # DesiredArguments

(* C18: when the object exists with the desired return type and the        *)
(* desired argument list differs from its own, create does not refuse the  *)
(* request: it raises the overloading notice and issues one CREATE OR      *)
(* REPLACE with the desired arguments, which the server can read; once the *)
(* invocation has finished outside check mode the catalog holds two        *)
(* routines of the name, the old one unchanged and one with the desired    *)
(* arguments.                                                              *)
C18_Overload ==
    SignatureDiffers =>
        LET m == Mutating(sent) IN
        /\ failure \in {"", "execution"}
        /\ \E i \in 1..Len(warnings) : warnings[i] = "overload"
        /\ Len(m) = 1
        /\ Kind(m[1]) = "create"
        /\ Command(m[1]).arguments = DesiredArguments
        /\ WellFormed(m[1])
        /\ failure = "" => changed = "True"
        /\ (pc = "done" /\ ~params.check_mode) =>
              /\ Cardinality(Named(db, FuncName)) = 2
              /\ Named(db0, FuncName) \subseteq db
              /\ \E r \in Named(db, FuncName) : r.arguments = DesiredArguments

\* the catalog the invocation started with holds more than one routine of
\* the name
MultiMatch == Cardinality(Named(db0, FuncName)) > 1

(* C19, as stated: when the catalog holds more than one routine of the     *)
(* looked-up name, the invocation ends as failed at the inspection, before *)
(* any mutating statement.                                                 *)
C19_MultiMatchRejected ==
    (MultiMatch /\ Started) => (pc = "failed" /\ Mutating(sent) = <<>>)

(* C19, amended: when the catalog holds more than one routine of the       *)
(* looked-up name, the inspection raises no error: the object counts as    *)
(* existing, one of the matching rows is taken as its current state, and   *)
(* the invocation goes on from there.                                      *)
C19_MultiMatchTakesARow ==
    (MultiMatch /\ Started) =>
        /\ failure # "inspection"
        /\ pc \in {"inspected", "acted"} =>
              /\ exists
              /\ \E r \in Named(db0, FuncName) : info = InfoOf(r)

C19_Witness ==
    /\ MultiMatch
    /\ exists
    /\ Mutating(sent) # <<>>
    /\ Kind(sent[Len(sent)]) = "create"


(* C20: for every request, the values main hands to the comparison with    *)
(* the inspected record have the shape of the inspector's output:          *)
(* arguments is one joined string, the empty string when the request has   *)
(* no arguments, and volatility is the code i, s or v of the request's     *)
(* word, v when there is none.                                             *)
C20_NormalizationTotal ==
    Started =>
        /\ arguments.t = "str"
        /\ arguments.s = DesiredArguments
        /\ volatile \in {"i", "s", "v"}
        /\ volatile = DesiredVolatile


\* the token sequence of the CREATE OR REPLACE statement for the values
\* create was called with
DesiredTokens ==
    <<"CREATE OR REPLACE FUNCTION", pg_quote_identifier(FuncName), "(">>
    \o (IF ArgsTruthy(arguments) THEN <<ArgsFormat(arguments)>> ELSE <<>>)
    \o <<")", "RETURNS", params.return_type, "LANGUAGE", params.language>>
    \o <<CASE volatile = "i" -> "IMMUTABLE"
           [] volatile = "s" -> "STABLE"
           [] OTHER -> "VOLATILE">>
    \o (IF params.strict THEN <<"STRICT">> ELSE <<>>)
    \o (IF params.security_definer THEN <<"SECURITY DEFINER">> ELSE <<>>)
    \o <<"AS", "$$", params.source, "$$">>

(* C21: the CREATE OR REPLACE statement create issues is the token         *)
(* sequence CREATE OR REPLACE FUNCTION, quoted name, (, arguments if any,  *)
(* ), RETURNS, type, LANGUAGE, language, the volatility word of the code,  *)
(* STRICT iff strict, SECURITY DEFINER iff security definer, AS, $$, body, *)
(* $$: every keyword is a token of its own, the return type and LANGUAGE   *)
(* in particular.                                                          *)
C21_Rendering ==
    \A i \in 1..Len(sent) :
        Kind(sent[i]) = "create" => Tokens(sent[i]) = DesiredTokens

====
